---- MODULE Spec2Model ----
(***************************************************************************)
(* A model of the RESP decoder of redis-clone (src/src/parser.rs).         *)
(*                                                                         *)
(* The decoder owns a buffered reader over a byte source.  The state is    *)
(* the source's bytes, the number of bytes the decoder has consumed, and   *)
(* the results the successive calls of parse_next have returned.  The      *)
(* decoding routines are pure in (bytes, position) and are operators.      *)
(*                                                                         *)
(* A byte is a short string: the ASCII character itself, "CR" for 0x0D,    *)
(* "LF" for 0x0A and "xFF" for the byte 0xFF, which is no valid UTF-8.     *)
(***************************************************************************)
EXTENDS Integers, Sequences, FiniteSets, TLC

VARIABLES
    source,     \* the bytes of the wrapped reader (a Cursor in the tests)
    pos,        \* how many bytes of source the decoder has consumed
    results,    \* what each call of parse_next returned and the position it
                \* left the reader at, in call order
    sent        \* the messages whose encodings the source was built from

vars == <<source, pos, results, sent>>

----------------------------------------------------------------------------
(* Bounds of the model. *)

\* i64 (and usize, isize) are modelled with IntBits bits, two's complement:
\* TLC's integers are 32 bits wide.  The range is I64_MIN..I64_MAX below, and
\* the header lines generated reach past both of its ends.
IntBits == 4
\* Calls of parse_next on one decoder.
MaxCalls == 3
\* Bytes in a simple string or a bulk payload of a generated message.
MaxText == 2
\* Elements of a generated array.
MaxElems == 2
\* Bytes of a generated header line.
MaxLine == 3
\* Bytes that follow a bulk header in a generated raw input.
MaxTail == 4

----------------------------------------------------------------------------
(* Bytes. *)

CR == "CR"
LF == "LF"
XFF == "xFF"
CRLF == <<CR, LF>>

DigitChars == <<"0", "1", "2", "3", "4", "5", "6", "7", "8", "9">>

IsDigit(c) == \E i \in DOMAIN DigitChars : DigitChars[i] = c

DigitVal(c) == (CHOOSE i \in DOMAIN DigitChars : DigitChars[i] = c) - 1

\* String::from_utf8 inside read_line: every modelled byte but 0xFF is ASCII.
IsUtf8(bytes) == \A i \in DOMAIN bytes : bytes[i] # XFF

RECURSIVE Pow2(_)
Pow2(n) == IF n = 0 THEN 1 ELSE 2 * Pow2(n - 1)

I64_MAX == Pow2(IntBits - 1) - 1
I64_MIN == -Pow2(IntBits - 1)

----------------------------------------------------------------------------
(* RespMessage and io::Result<RespMessage>. *)

SimpleString(s) == [type |-> "SimpleString", val |-> s]
Integer(n)      == [type |-> "Integer", val |-> n]
BulkString(b)   == [type |-> "BulkString", val |-> b]
Array(a)        == [type |-> "Array", val |-> a]
Null            == [type |-> "Null", val |-> <<>>]

Ok(v)        == [kind |-> "Ok", val |-> v, err |-> "", text |-> ""]
Err(e, t)    == [kind |-> "Err", val |-> <<>>, err |-> e, text |-> t]
\* A panic unwinds out of parse_next: it returns nothing to the caller.
Panic(t)     == [kind |-> "Panic", val |-> <<>>, err |-> "", text |-> t]

\* The outcome of a read or of a decode, with the reader's position after it.
At(r, p) == [res |-> r, pos |-> p]

----------------------------------------------------------------------------
(* The reader: tokio's BufReader over the source. *)

\* AsyncReadExt::read_exact: n bytes, or UnexpectedEof once the source ends
\* first (what was left of the source is consumed then).
ReadExact(buf, p, n) ==
    IF p + n <= Len(buf)
    THEN At(Ok(SubSeq(buf, p + 1, p + n)), p + n)
    ELSE At(Err("UnexpectedEof", "early eof"), Len(buf))

\* The index of the first LF after position p, 0 when there is none.
FirstLF(buf, p) ==
    IF \E i \in (p + 1)..Len(buf) : buf[i] = LF
    THEN CHOOSE i \in (p + 1)..Len(buf) :
             /\ buf[i] = LF
             /\ \A j \in (p + 1)..(i - 1) : buf[j] # LF
    ELSE 0

\* read_line on a reader that forgets what it read ahead: the line is the
\* same, and everything buffered behind it is gone.
BufReadLineUnbuffered(buf, p) ==
    LET i   == FirstLF(buf, p)
        end == IF i = 0 THEN Len(buf) ELSE i
        raw == SubSeq(buf, p + 1, end)
    IN  IF IsUtf8(raw)
        THEN At(Ok(raw), Len(buf))
        ELSE At(Err("InvalidData", "stream did not contain valid UTF-8"), Len(buf))

\* AsyncBufReadExt::read_line: the bytes up to and including the first LF, or
\* up to the end of the source when no LF is left; they must be UTF-8.
BufReadLine(buf, p) ==
    LET i   == FirstLF(buf, p)
        end == IF i = 0 THEN Len(buf) ELSE i
        raw == SubSeq(buf, p + 1, end)
    IN  IF IsUtf8(raw)
        THEN At(Ok(raw), end)
        ELSE At(Err("InvalidData", "stream did not contain valid UTF-8"), end)

\* trim_end_matches('\n'): only the LF of the terminator is removed.
TrimEndLf(s, pat) ==
    IF Len(s) >= 1 /\ s[Len(s)] = LF THEN SubSeq(s, 1, Len(s) - 1) ELSE s

\* str::trim_end_matches: the suffix pat is removed as often as it matches.
RECURSIVE TrimEndMatches(_, _)
TrimEndMatches(s, pat) ==
    IF /\ Len(pat) > 0
       /\ Len(s) >= Len(pat)
       /\ SubSeq(s, Len(s) - Len(pat) + 1, Len(s)) = pat
    THEN TrimEndMatches(SubSeq(s, 1, Len(s) - Len(pat)), pat)
    ELSE s

\* RespParser::read_line
ReadLine(buf, p) ==
    LET line == BufReadLine(buf, p)
    IN  IF line.res.kind # "Ok"
        THEN line
        ELSE IF line.res.val = <<>>
        THEN At(Err("UnexpectedEof", "Connection closed"), line.pos)
        ELSE At(Ok(TrimEndMatches(line.res.val, CRLF)), line.pos)

----------------------------------------------------------------------------
(* str::parse::<i64>: an optional sign, then one or more digits, accumulated *)
(* with checked arithmetic (away from zero on the side of the sign).         *)

RECURSIVE ParseDigits(_, _, _, _)
ParseDigits(digits, i, acc, positive) ==
    IF i > Len(digits)
    THEN [ok |-> TRUE, val |-> acc]
    ELSE IF ~IsDigit(digits[i])
    THEN [ok |-> FALSE, val |-> 0]
    ELSE LET d    == DigitVal(digits[i])
             next == IF positive THEN acc * 10 + d ELSE acc * 10 - d
         IN  IF next > I64_MAX \/ next < I64_MIN
             THEN [ok |-> FALSE, val |-> 0]
             ELSE ParseDigits(digits, i + 1, next, positive)

ParseI64(line) ==
    IF line = <<>>
    THEN [ok |-> FALSE, val |-> 0]
    ELSE IF line = <<"+">> \/ line = <<"-">>
    THEN [ok |-> FALSE, val |-> 0]
    ELSE IF line[1] = "+"
    THEN ParseDigits(Tail(line), 1, 0, TRUE)
    ELSE IF line[1] = "-"
    THEN ParseDigits(Tail(line), 1, 0, FALSE)
    ELSE ParseDigits(line, 1, 0, TRUE)

\* `length as usize`: the two's complement value of the same width.
AsUsize(n) == IF n < 0 THEN n + Pow2(IntBits) ELSE n

\* vec![0u8; n] and Vec::with_capacity(n) panic with "capacity overflow" when
\* the request exceeds isize::MAX bytes, which every negative length cast to
\* usize does.  A request within isize::MAX is taken to succeed: neither the
\* size of an array element nor the exhaustion of the heap is modelled.
CapacityOverflow(n) == n > I64_MAX

----------------------------------------------------------------------------
(* The decoding routines of RespParser. *)

ParseSimpleString(buf, p) ==
    LET content == ReadLine(buf, p)
    IN  IF content.res.kind # "Ok"
        THEN content
        ELSE At(Ok(SimpleString(content.res.val)), content.pos)

\* parse_integer with unwrap_or(0) in place of the error.
ParseIntegerOrZero(buf, p) ==
    LET line == ReadLine(buf, p)
    IN  IF line.res.kind # "Ok"
        THEN line
        ELSE LET n == ParseI64(line.res.val)
             IN  At(Ok(Integer(IF n.ok THEN n.val ELSE 0)), line.pos)

ParseInteger(buf, p) ==
    LET line == ReadLine(buf, p)
    IN  IF line.res.kind # "Ok"
        THEN line
        ELSE LET n == ParseI64(line.res.val)
             IN  IF ~n.ok
                 THEN At(Err("InvalidData", "Invalid integer format"), line.pos)
                 ELSE At(Ok(Integer(n.val)), line.pos)

\* parse_bulk_string reading its payload as a line instead of `length` bytes.
ParseBulkStringByLine(buf, p) ==
    LET line == ReadLine(buf, p)
    IN  IF line.res.kind # "Ok"
        THEN line
        ELSE LET length == ParseI64(line.res.val)
             IN  IF ~length.ok
                 THEN At(Err("InvalidData", "Invalid bulk string length"), line.pos)
                 ELSE IF length.val = -1
                 THEN At(Ok(Null), line.pos)
                 ELSE LET payload == ReadLine(buf, line.pos)
                      IN  IF payload.res.kind # "Ok"
                          THEN payload
                          ELSE At(Ok(BulkString(payload.res.val)), payload.pos)

ParseBulkString(buf, p) ==
    LET line == ReadLine(buf, p)
    IN  IF line.res.kind # "Ok"
        THEN line
        ELSE LET length == ParseI64(line.res.val)
             IN  IF ~length.ok
                 THEN At(Err("InvalidData", "Invalid bulk string length"), line.pos)
                 ELSE IF length.val = -1
                 THEN At(Ok(Null), line.pos)
                 ELSE IF CapacityOverflow(AsUsize(length.val))
                 THEN At(Panic("capacity overflow"), line.pos)
                 ELSE LET buffer == ReadExact(buf, line.pos, AsUsize(length.val))
                      IN  IF buffer.res.kind # "Ok"
                          THEN buffer
                          ELSE LET crlf == ReadExact(buf, buffer.pos, 2)
                               IN  IF crlf.res.kind # "Ok"
                                   THEN crlf
                                   ELSE At(Ok(BulkString(buffer.res.val)), crlf.pos)

RECURSIVE ParseNext(_, _)

\* The loop of parse_array with insert(0, ..) in place of push.
RECURSIVE ParseElementsReversed(_, _, _, _)
ParseElementsReversed(buf, p, remaining, array) ==
    IF remaining <= 0
    THEN At(Ok(Array(array)), p)
    ELSE LET elem == ParseNext(buf, p)
         IN  IF elem.res.kind # "Ok"
             THEN elem
             ELSE ParseElementsReversed(buf, elem.pos, remaining - 1,
                                        <<elem.res.val>> \o array)

\* The loop of parse_array: `remaining` elements are still to be decoded.
RECURSIVE ParseElements(_, _, _, _)
ParseElements(buf, p, remaining, array) ==
    IF remaining <= 0
    THEN At(Ok(Array(array)), p)
    ELSE LET elem == ParseNext(buf, p)
         IN  IF elem.res.kind # "Ok"
             THEN elem
             ELSE ParseElements(buf, elem.pos, remaining - 1,
                                Append(array, elem.res.val))

ParseArray(buf, p) ==
    LET line == ReadLine(buf, p)
    IN  IF line.res.kind # "Ok"
        THEN line
        ELSE LET length == ParseI64(line.res.val)
             IN  IF ~length.ok
                 THEN At(Err("InvalidData", "Invalid array length"), line.pos)
                 ELSE IF CapacityOverflow(AsUsize(length.val))
                 THEN At(Panic("capacity overflow"), line.pos)
                 ELSE ParseElements(buf, line.pos, length.val, <<>>)

ParseNext(buf, p) ==
    LET prefix == ReadExact(buf, p, 1)
    IN  IF prefix.res.kind # "Ok"
        THEN prefix
        ELSE CASE prefix.res.val[1] = "+" -> ParseSimpleString(buf, prefix.pos)
               [] prefix.res.val[1] = ":" -> ParseInteger(buf, prefix.pos)
               [] prefix.res.val[1] = "$" -> ParseBulkString(buf, prefix.pos)
               [] prefix.res.val[1] = "*" -> ParseArray(buf, prefix.pos)
               [] OTHER -> At(Err("InvalidData", "Unknown prefix"), prefix.pos)

----------------------------------------------------------------------------
(* The wire format the sources are built in (the tests' byte strings and    *)
(* the wire-format table): the encoding the decoder is the inverse of.      *)

RECURSIVE DecimalNat(_)
DecimalNat(n) ==
    IF n < 10
    THEN <<DigitChars[n + 1]>>
    ELSE DecimalNat(n \div 10) \o <<DigitChars[(n % 10) + 1]>>

Decimal(n) == IF n < 0 THEN <<"-">> \o DecimalNat(-n) ELSE DecimalNat(n)

RECURSIVE Encode(_)
RECURSIVE EncodeAll(_)
EncodeAll(msgs) ==
    IF msgs = <<>> THEN <<>> ELSE Encode(Head(msgs)) \o EncodeAll(Tail(msgs))

Encode(m) ==
    CASE m.type = "SimpleString" -> <<"+">> \o m.val \o CRLF
      [] m.type = "Integer"      -> <<":">> \o Decimal(m.val) \o CRLF
      [] m.type = "BulkString"   ->
             <<"$">> \o Decimal(Len(m.val)) \o CRLF \o m.val \o CRLF
      [] m.type = "Null"         -> <<"$">> \o Decimal(-1) \o CRLF
      [] m.type = "Array"        ->
             <<"*">> \o Decimal(Len(m.val)) \o CRLF \o EncodeAll(m.val)

----------------------------------------------------------------------------
(* The sources the decoder is run on. *)

SeqsUpTo(S, n) == UNION {[1..k -> S] : k \in 0..n}

\* Text of a simple string: no CR, no LF.
TextBytes == {"a", "$", "1"}
\* Bytes of a bulk payload: any byte.
PayloadBytes == {"a", CR, LF, XFF}
\* Bytes of a header line, CR among them.
LineBytes == {"+", "-", "0", "1", "7", "8", "9", "a", CR, XFF}
Tags == {"+", ":", "$", "*", "-"}
Terminators == {CRLF, <<LF>>, <<CR>>, <<>>}

Leaves ==
    {SimpleString(s) : s \in SeqsUpTo(TextBytes, MaxText)}
    \cup {Integer(n) : n \in {I64_MIN, -1, 0, 1, I64_MAX}}
    \cup {BulkString(b) : b \in SeqsUpTo(PayloadBytes, MaxText)}
    \cup {Null}

\* Arrays that are elements of arrays, one of them with an array inside.
InnerArrays ==
    {Array(<<>>),
     Array(<<Integer(1)>>),
     Array(<<BulkString(<<"a">>), Array(<<Null, SimpleString(<<>>)>>)>>)}

Elements ==
    {SimpleString(<<"a">>), Integer(-1), BulkString(<<CR, LF>>),
     BulkString(<<>>), Null}
    \cup InnerArrays

Arrays == {Array(a) : a \in SeqsUpTo(Elements, MaxElems)}

Messages == Leaves \cup Arrays

\* What may follow a first message in the source.
SecondMessages ==
    {SimpleString(<<"a">>), Integer(I64_MIN), BulkString(<<LF>>), Null,
     Array(<<>>), Array(<<Integer(1), Null>>)}

Fresh ==
    /\ pos = 0
    /\ results = <<>>

\* One or two well-formed messages, back to back.
InitSent ==
    /\ sent \in {<<m>> : m \in Messages}
                \cup {<<m1, m2>> : m1 \in Messages, m2 \in SecondMessages}
    /\ source = EncodeAll(sent)
    /\ Fresh

\* A well-formed message cut short: a proper prefix of its encoding.
InitTruncated ==
    /\ sent \in {<<m>> : m \in Messages}
    /\ \E k \in 0..(Len(EncodeAll(sent)) - 1) :
           source = SubSeq(EncodeAll(sent), 1, k)
    /\ Fresh

\* A tag, any header line, and a line ending or none.
InitLine ==
    /\ sent = <<>>
    /\ \E tag \in Tags, line \in SeqsUpTo(LineBytes, MaxLine),
          term \in Terminators :
           source = <<tag>> \o line \o term
    /\ Fresh

\* A bulk header followed by any bytes.
InitBulk ==
    /\ sent = <<>>
    /\ \E length \in 0..MaxText, tail \in SeqsUpTo(PayloadBytes, MaxTail) :
           source = <<"$">> \o Decimal(length) \o CRLF \o tail
    /\ Fresh

Init == InitSent \/ InitTruncated \/ InitLine \/ InitBulk

----------------------------------------------------------------------------
(* The caller drives the decoder: one call of parse_next at a time.  A     *)
(* panic unwinds through the caller, which makes no further call.          *)

Panicked == \E i \in DOMAIN results : results[i].res.kind = "Panic"

ParseNextCall ==
    /\ Len(results) < MaxCalls
    /\ ~Panicked
    /\ LET r == ParseNext(source, pos)
       IN  /\ results' = Append(results, r)
           /\ pos' = r.pos
    /\ UNCHANGED <<source, sent>>

Next == ParseNextCall

Spec          == Init /\ [][Next]_vars
SpecSent      == InitSent /\ [][Next]_vars
SpecTruncated == InitTruncated /\ [][Next]_vars
SpecLine      == InitLine /\ [][Next]_vars
SpecBulk      == InitBulk /\ [][Next]_vars

----------------------------------------------------------------------------
(* What the properties below are stated in. *)

Called == Len(results) >= 1
First  == results[1]

IsDigits(t) == Len(t) >= 1 /\ \A i \in DOMAIN t : IsDigit(t[i])

RECURSIVE DigitsValue(_)
DigitsValue(t) ==
    IF t = <<>>
    THEN 0
    ELSE DigitsValue(SubSeq(t, 1, Len(t) - 1)) * 10 + DigitVal(t[Len(t)])

\* Base-10 text of an integer: digits, with "-" before them when negative.
IsDecimalText(t) ==
    \/ IsDigits(t)
    \/ Len(t) >= 2 /\ t[1] = "-" /\ IsDigits(Tail(t))

\* The same with a leading "+" allowed as well.
IsSignedDecimalText(t) ==
    \/ IsDecimalText(t)
    \/ Len(t) >= 2 /\ t[1] = "+" /\ IsDigits(Tail(t))

TextValue(t) ==
    IF t[1] = "-" THEN -DigitsValue(Tail(t))
    ELSE IF t[1] = "+" THEN DigitsValue(Tail(t))
    ELSE DigitsValue(t)

InI64(n) == I64_MIN <= n /\ n <= I64_MAX

\* The source is one tag, a header line without LF, and CR LF.
IsFramedLine(tag) ==
    /\ Len(source) >= 3
    /\ source[1] = tag
    /\ SubSeq(source, Len(source) - 1, Len(source)) = CRLF
    /\ \A i \in 2..(Len(source) - 2) : source[i] # LF

FramedLine == SubSeq(source, 2, Len(source) - 2)

InvalidInteger == Err("InvalidData", "Invalid integer format")

----------------------------------------------------------------------------
(* Well-formed sources (SpecSent). *)

\* C1: two valid messages back to back are returned by two calls in their
\* order; the first call consumes exactly the first message's encoding and
\* the second exactly the rest of the source.
C1_BackToBack ==
    Len(sent) = 2 =>
        /\ Called =>
               /\ First.res = Ok(sent[1])
               /\ First.pos = Len(Encode(sent[1]))
        /\ Len(results) >= 2 =>
               /\ results[2].res = Ok(sent[2])
               /\ results[2].pos = Len(source)

C1_Witness ==
    /\ Len(sent) = 2
    /\ Len(results) = 2
    /\ sent[1].type = "Array"
    /\ Len(sent[1].val) = 2
    /\ sent[2].type = "BulkString"
    /\ results[1].res = Ok(sent[1])
    /\ results[2].res = Ok(sent[2])

\* C2: an array header declaring n >= 0 followed by n valid messages decodes
\* to an Array of exactly n elements, the i-th being the decoding of the
\* i-th encoded message.
C2_ArrayElements ==
    (Called /\ sent[1].type = "Array") =>
        /\ First.res.kind = "Ok"
        /\ First.res.val.type = "Array"
        /\ Len(First.res.val.val) = Len(sent[1].val)
        /\ \A i \in DOMAIN sent[1].val :
               /\ ParseNext(Encode(sent[1].val[i]), 0).res.kind = "Ok"
               /\ First.res.val.val[i]
                      = ParseNext(Encode(sent[1].val[i]), 0).res.val
               /\ First.res.val.val[i] = sent[1].val[i]

C2_Witness ==
    /\ Called
    /\ sent[1].type = "Array"
    /\ Len(sent[1].val) = 2
    /\ sent[1].val[1].type = "Array"
    /\ sent[1].val[1].val # <<>>
    /\ sent[1].val[2].type = "BulkString"
    /\ First.res = Ok(sent[1])

\* C3: the encoding of a bulk string of any bytes b, CR and LF among them,
\* decodes to BulkString(b), byte for byte and of the declared length.
C3_BulkRoundTrip ==
    (Called /\ sent[1].type = "BulkString") =>
        /\ First.res = Ok(BulkString(sent[1].val))
        /\ Len(First.res.val.val) = Len(sent[1].val)

C3_Witness ==
    /\ Called
    /\ sent[1] = BulkString(<<LF, CR>>)
    /\ First.res = Ok(BulkString(<<LF, CR>>))

\* C6: `+` s CR LF, for s without CR and LF (the empty s too), decodes to
\* exactly SimpleString(s), and the terminator is consumed.
C6_SimpleStringRoundTrip ==
    (Called /\ sent[1].type = "SimpleString") =>
        /\ First.res = Ok(SimpleString(sent[1].val))
        /\ First.pos = Len(sent[1].val) + 3

C6_Witness ==
    /\ Called
    /\ sent[1] = SimpleString(<<"a", "$">>)
    /\ First.res = Ok(SimpleString(<<"a", "$">>))
    /\ First.pos = 5

----------------------------------------------------------------------------
(* Truncated sources (SpecTruncated). *)

\* The text of a message's header line.
HeaderText(m) ==
    CASE m.type = "SimpleString" -> m.val
      [] m.type = "Integer"      -> Decimal(m.val)
      [] m.type = "BulkString"   -> Decimal(Len(m.val))
      [] m.type = "Null"         -> Decimal(-1)
      [] m.type = "Array"        -> Decimal(Len(m.val))

\* The lengths of the prefixes of Encode(m) that end inside a header line
\* (after its tag, before its CR LF), or inside a bulk payload or the CR LF
\* that follows it; for an array, those of its elements as well.
RECURSIVE MidCuts(_)
RECURSIVE ElementCuts(_, _)
ElementCuts(elems, offset) ==
    IF elems = <<>>
    THEN {}
    ELSE {offset + k : k \in MidCuts(Head(elems))}
         \cup ElementCuts(Tail(elems), offset + Len(Encode(Head(elems))))

MidCuts(m) ==
    LET line   == 1 + Len(HeaderText(m))
        header == line + 2
    IN  (1..line)
        \cup (IF m.type = "BulkString"
              THEN (header + 1)..(header + Len(m.val) + 1)
              ELSE {})
        \cup (IF m.type = "Array" THEN ElementCuts(m.val, header) ELSE {})

\* C4: a prefix of a valid encoding that ends inside a header line, inside a
\* bulk payload or inside its trailing CR LF makes parse_next fail with
\* UnexpectedEof; no message is built from it.
C4_TruncatedIsEof ==
    (Called /\ Len(source) \in MidCuts(sent[1])) =>
        /\ First.res.kind = "Err"
        /\ First.res.err = "UnexpectedEof"

----------------------------------------------------------------------------
(* Header lines (SpecLine). *)

\* C5 as stated: on `:` line CR LF the result is Integer(n) when the line is
\* the base-10 text of an n in the i64 range, and an invalid-integer error
\* when the line is empty, holds a character that is no digit (the "-" of a
\* negative number apart) or denotes a value out of range.
C5_IntegerPathDigitsOnly ==
    (Called /\ IsFramedLine(":")) =>
        IF IsDecimalText(FramedLine) /\ InI64(TextValue(FramedLine))
        THEN First.res = Ok(Integer(TextValue(FramedLine)))
        ELSE First.res.kind = "Err" /\ First.res.err = "InvalidData"

\* What parse_next consumed after the tag, without a closing CR LF.
FirstLineText ==
    LET text == SubSeq(source, 2, First.pos)
    IN  IF Len(text) >= 2 /\ SubSeq(text, Len(text) - 1, Len(text)) = CRLF
        THEN SubSeq(text, 1, Len(text) - 2)
        ELSE text

\* C5, amended: on `:` line CR LF the result is Integer(n) when the line is
\* digits after an optional "+" or "-" and its value n is in the i64 range;
\* every other line is an error (the invalid-integer one when the line is
\* text).  Whatever the line ending, an Integer is only ever the value of
\* the signed decimal text that was read.
C5_IntegerPath ==
    /\ (Called /\ IsFramedLine(":")) =>
           /\ First.pos = Len(source)
           /\ IF IsSignedDecimalText(FramedLine) /\ InI64(TextValue(FramedLine))
              THEN First.res = Ok(Integer(TextValue(FramedLine)))
              ELSE /\ First.res.kind = "Err"
                   /\ First.res.err = "InvalidData"
                   /\ IsUtf8(FramedLine) => First.res = InvalidInteger
    /\ (Called /\ source[1] = ":" /\ First.res.kind = "Ok") =>
           /\ IsSignedDecimalText(FirstLineText)
           /\ InI64(TextValue(FirstLineText))
           /\ First.res = Ok(Integer(TextValue(FirstLineText)))

\* Both outcomes at the edge of the range, and a leading "+".
C5_Witness ==
    /\ Len(results) = 2
    /\ source = <<":", "+", "7">> \o CRLF
    /\ First.res = Ok(Integer(I64_MAX))
    /\ ParseNext(<<":", "8">> \o CRLF, 0).res = InvalidInteger
    /\ ParseNext(<<":", "-", "8">> \o CRLF, 0).res = Ok(Integer(I64_MIN))
    /\ ParseNext(<<":", "-", "9">> \o CRLF, 0).res = InvalidInteger
    /\ ParseNext(<<":">> \o CRLF, 0).res = InvalidInteger

\* C7: a bulk header declaring a negative length other than -1 is answered
\* with a decode error: no Null, no BulkString, no panic.
C7_NegativeBulkLengthIsError ==
    (/\ Called
     /\ IsFramedLine("$")
     /\ IsDecimalText(FramedLine)
     /\ InI64(TextValue(FramedLine))
     /\ TextValue(FramedLine) < 0
     /\ TextValue(FramedLine) # -1) =>
        First.res.kind = "Err"

\* C8: an array header declaring a length below 0 completes normally with an
\* empty (or null) array and consumes nothing after the header line.
C8_NegativeArrayLengthIsEmpty ==
    (/\ Called
     /\ IsFramedLine("*")
     /\ IsDecimalText(FramedLine)
     /\ InI64(TextValue(FramedLine))
     /\ TextValue(FramedLine) < 0) =>
        /\ First.res \in {Ok(Array(<<>>)), Ok(Null)}
        /\ First.pos = Len(source)

\* The index of the LF of the first CR LF pair of the source, 0 without one.
FirstCrLf ==
    IF \E i \in 2..Len(source) : source[i - 1] = CR /\ source[i] = LF
    THEN CHOOSE i \in 2..Len(source) :
             /\ source[i - 1] = CR /\ source[i] = LF
             /\ \A j \in 2..(i - 1) : ~(source[j - 1] = CR /\ source[j] = LF)
    ELSE 0

\* C10: a line is read up to and including the first CR LF pair and returned
\* without it, so no SimpleString holds a CR or an LF, whatever the input:
\* lone LF and CR without LF included.
C10_LineHasNoCrLf ==
    /\ \A i \in DOMAIN results :
           (results[i].res.kind = "Ok"
            /\ results[i].res.val.type = "SimpleString") =>
               \A j \in DOMAIN results[i].res.val.val :
                   results[i].res.val.val[j] \notin {CR, LF}
    /\ (Called /\ source[1] = "+" /\ FirstCrLf # 0) =>
           /\ First.pos = FirstCrLf
           /\ First.res = Ok(SimpleString(SubSeq(source, 2, FirstCrLf - 2)))

----------------------------------------------------------------------------
(* Bulk headers followed by any bytes (SpecBulk). *)

\* The length the bulk header of the source declares.
DeclaredLength == TextValue(SubSeq(source, 2, FirstLF(source, 0) - 2))

\* C9: a BulkString is returned only with exactly the declared number of
\* bytes and only when the two bytes consumed after the payload are CR LF.
C9_BulkTerminatorIsCrLf ==
    (Called /\ First.res.kind = "Ok" /\ First.res.val.type = "BulkString") =>
        /\ Len(First.res.val.val) = DeclaredLength
        /\ SubSeq(source, First.pos - 1, First.pos) = CRLF

====
